---- MODULE Spec2Model ----
(***************************************************************************)
(* Model of the X-Road gateway's upstream forwarding core:                 *)
(*   app/utils/xroad_client_ss.py  (XRoadClient, xroad_client,             *)
(*                                  create_xroad_client)                   *)
(*   app/core/config.py            (Settings, get_xroad_config)            *)
(*   app/api/v1/*.py               (get_xroad_client, the route handlers)  *)
(*                                                                         *)
(* Encoding of Python values.                                              *)
(*   - text that the code slices or concatenates (URLs, endpoints, error   *)
(*     descriptions) is a sequence of tokens; "/" "api" "v1" are the       *)
(*     tokens the URL builder looks at, any other token is opaque text     *)
(*     that contains no slash;                                             *)
(*   - None of such a text is <<>>: the code only ever tests these values  *)
(*     with `or` / `if`, where None and "" behave alike;                   *)
(*   - api keys, dict-valued arguments and payloads are atoms (strings),   *)
(*     None is the atom "None", the empty dict is "{}";                    *)
(*   - None of an integer timeout is 0 (both are falsy for `or`).          *)
(*   - a Python dict result is a record; a key the code does not set is    *)
(*     not in the record's DOMAIN.                                         *)
(***************************************************************************)
EXTENDS Integers, Sequences, FiniteSets, TLC

VARIABLES
    settings,       \* app.core.config.settings (constructed once at import)
    xroad_client,   \* the module-level singleton of xroad_client_ss.py
    call,           \* per in-flight forwarded call: position and locals
    args,           \* inputs of the pure function under test (pure specs)
    ret             \* its result

vars == <<settings, xroad_client, call, args, ret>>

----------------------------------------------------------------------------
(* Bounds *)

\* number of call slots (coroutines that may be in flight together)
MaxCalls == 2
\* longest endpoint, in tokens, the URL-builder specification enumerates
MaxEndpointLen == 5
\* most trailing slashes a configured base URL carries
MaxTrailingSlashes == 2

Calls == 1..MaxCalls

----------------------------------------------------------------------------
(* Python truthiness *)

None == "None"
NoneUrl == <<>>

Truthy(x) == x \notin {None, "", "{}"}
TruthyUrl(u) == u # <<>>
TruthyInt(n) == n # 0

\* Python's `a or b`
OrUrl(a, b) == IF TruthyUrl(a) THEN a ELSE b
OrAtom(a, b) == IF Truthy(a) THEN a ELSE b
OrInt(a, b) == IF TruthyInt(a) THEN a ELSE b

----------------------------------------------------------------------------
(* Text helpers *)

StartsWith(s, p) == Len(s) >= Len(p) /\ SubSeq(s, 1, Len(p)) = p

RECURSIVE rstrip_slash(_)
rstrip_slash(s) ==
    IF s # <<>> /\ s[Len(s)] = "/"
    THEN rstrip_slash(SubSeq(s, 1, Len(s) - 1))
    ELSE s

RECURSIVE Slashes(_)
Slashes(n) == IF n = 0 THEN <<>> ELSE <<"/">> \o Slashes(n - 1)

\* number of positions at which p occurs in s
Occurrences(s, p) ==
    Cardinality({k \in 1..Len(s) :
                    k + Len(p) - 1 <= Len(s) /\ SubSeq(s, k, k + Len(p) - 1) = p})

ApiV1 == <<"/", "api", "/", "v1">>
ApiV1Slash == <<"/", "api", "/", "v1", "/">>
ApiSlash == <<"/", "api", "/">>

----------------------------------------------------------------------------
(* app/core/config.py: Settings *)

DefaultTimeout == 30

EnvNames == {"DEV", "PROD", "TEST"}

\* values an operator may put into the environment for a named target
EnvBaseUrl(E) ==
    CASE E = "DEV"  -> <<"https://dev.example:4000">>
      [] E = "PROD" -> <<"https://prod.example:4000">>
      [] E = "TEST" -> <<"https://test.example:4000">>
EnvApiKey(E) ==
    CASE E = "DEV" -> "dev-key" [] E = "PROD" -> "prod-key" [] E = "TEST" -> "test-key"
EnvTimeout(E) ==
    CASE E = "DEV" -> 10 [] E = "PROD" -> 60 [] E = "TEST" -> 5

\* which fields of a named environment are configured
EnvFieldSets == SUBSET {"BASE_URL", "API_KEY", "TIMEOUT"}

\* The Settings object.  ss_base is the value of XROAD_BASE_URL_SS and cfg maps every
\* environment name to the set of its configured fields.  The attributes are those
\* config.py declares (lines 32-47) together with XROAD_BASE_URL_SS and
\* XROAD_API_KEY_SS, which XRoadClient.__init__ reads while the module-level
\* singleton is built at import: a process that runs has them.  Settings has no
\* attribute XROAD_BASE_URL.
Settings(ss_base, cfg) ==
    [ XROAD_BASE_URL_CS   |-> <<"https://192.168.30.195:4000">>,
      XROAD_API_KEY       |-> "d54a4bfe-104c-4c39-87a4-5b847fa6680d",
      XROAD_TIMEOUT       |-> DefaultTimeout,
      XROAD_BASE_URL_SS   |-> ss_base,
      XROAD_API_KEY_SS    |-> "ss-default-key",
      XROAD_DEV_BASE_URL  |-> IF "BASE_URL" \in cfg["DEV"] THEN EnvBaseUrl("DEV") ELSE NoneUrl,
      XROAD_DEV_API_KEY   |-> IF "API_KEY" \in cfg["DEV"] THEN EnvApiKey("DEV") ELSE None,
      XROAD_DEV_TIMEOUT   |-> IF "TIMEOUT" \in cfg["DEV"] THEN EnvTimeout("DEV") ELSE 0,
      XROAD_PROD_BASE_URL |-> IF "BASE_URL" \in cfg["PROD"] THEN EnvBaseUrl("PROD") ELSE NoneUrl,
      XROAD_PROD_API_KEY  |-> IF "API_KEY" \in cfg["PROD"] THEN EnvApiKey("PROD") ELSE None,
      XROAD_PROD_TIMEOUT  |-> IF "TIMEOUT" \in cfg["PROD"] THEN EnvTimeout("PROD") ELSE 0,
      XROAD_TEST_BASE_URL |-> IF "BASE_URL" \in cfg["TEST"] THEN EnvBaseUrl("TEST") ELSE NoneUrl,
      XROAD_TEST_API_KEY  |-> IF "API_KEY" \in cfg["TEST"] THEN EnvApiKey("TEST") ELSE None,
      XROAD_TEST_TIMEOUT  |-> IF "TIMEOUT" \in cfg["TEST"] THEN EnvTimeout("TEST") ELSE 0 ]

SsHost == <<"https://x.example:4000">>

\* configured Security Server base URLs: the host followed by 0..MaxTrailingSlashes "/"
SsBaseUrls == {SsHost \o Slashes(n) : n \in 0..MaxTrailingSlashes}

AllSettings == {Settings(b, cfg) : b \in SsBaseUrls, cfg \in [EnvNames -> EnvFieldSets]}

\* getattr(self, name, default)
GetAttr(s, name, default) == IF name \in DOMAIN s THEN s[name] ELSE default
\* self.<name>: raises AttributeError when Settings has no such attribute
HasAttr(s, name) == name \in DOMAIN s

\* str.upper() on the environment names that occur
Upper(e) ==
    CASE e = "dev" -> "DEV" [] e = "prod" -> "PROD" [] e = "test" -> "TEST"
      [] e = "qa" -> "QA" [] OTHER -> e

AttributeError == [exc |-> "AttributeError"]

\* get_xroad_config resolving per target: an environment that configures its base
\* URL supplies all three values itself, without the per-field fallback
get_xroad_config_per_target(s, env_prefix) ==
    IF Truthy(env_prefix)
    THEN LET prefix == Upper(env_prefix)
             eb == GetAttr(s, "XROAD_" \o prefix \o "_BASE_URL", NoneUrl)
         IN  IF TruthyUrl(eb)
             THEN [ exc      |-> None,
                    base_url |-> eb,
                    api_key  |-> GetAttr(s, "XROAD_" \o prefix \o "_API_KEY", None),
                    timeout  |-> GetAttr(s, "XROAD_" \o prefix \o "_TIMEOUT", 0) ]
             ELSE AttributeError
    ELSE AttributeError

\* Settings.get_xroad_config.  The dict literal evaluates base_url first, so a
\* failing attribute read of XROAD_BASE_URL ends the call before the other keys.
get_xroad_config(s, env_prefix) ==
    IF Truthy(env_prefix)
    THEN LET prefix == Upper(env_prefix)
             eb == GetAttr(s, "XROAD_" \o prefix \o "_BASE_URL", NoneUrl)
             ek == GetAttr(s, "XROAD_" \o prefix \o "_API_KEY", None)
             et == GetAttr(s, "XROAD_" \o prefix \o "_TIMEOUT", 0)
         IN  IF ~TruthyUrl(eb) /\ ~HasAttr(s, "XROAD_BASE_URL")
             THEN AttributeError
             ELSE [ exc      |-> None,
                    base_url |-> OrUrl(eb, GetAttr(s, "XROAD_BASE_URL", NoneUrl)),
                    api_key  |-> OrAtom(ek, s.XROAD_API_KEY),
                    timeout  |-> OrInt(et, s.XROAD_TIMEOUT) ]
    ELSE IF ~HasAttr(s, "XROAD_BASE_URL")
         THEN AttributeError
         ELSE [ exc      |-> None,
                base_url |-> s["XROAD_BASE_URL"],
                api_key  |-> s.XROAD_API_KEY,
                timeout  |-> s.XROAD_TIMEOUT ]

----------------------------------------------------------------------------
(* app/utils/xroad_client_ss.py: XRoadClient *)

AuthScheme == "X-Road-ApiKey token="
JsonType == "application/json"

\* XRoadClient.__init__ with the Authorization header built from the default key
\* instead of the key the client was given
XRoadClient_default_key_header(s, base_url, api_key, timeout) ==
    [ base_url |-> rstrip_slash(OrUrl(base_url, s.XROAD_BASE_URL_SS)),
      api_key  |-> OrAtom(api_key, s.XROAD_API_KEY_SS),
      timeout  |-> OrInt(timeout, s.XROAD_TIMEOUT),
      headers  |-> ("Authorization" :> <<AuthScheme, s.XROAD_API_KEY_SS>>)
                   @@ ("Content-Type" :> <<JsonType>>) ]

\* XRoadClient.__init__
XRoadClient(s, base_url, api_key, timeout) ==
    LET k == OrAtom(api_key, s.XROAD_API_KEY_SS)
    IN  [ base_url |-> rstrip_slash(OrUrl(base_url, s.XROAD_BASE_URL_SS)),
          api_key  |-> k,
          timeout  |-> OrInt(timeout, s.XROAD_TIMEOUT),
          headers  |-> ("Authorization" :> <<AuthScheme, k>>)
                       @@ ("Content-Type" :> <<JsonType>>) ]

create_xroad_client(s, base_url, api_key, timeout) ==
    XRoadClient(s, base_url, api_key, timeout)

\* _build_url without the branch for the generic /api/ prefix
_build_url_no_generic_branch(base_url, endpoint0) ==
    LET endpoint == IF ~StartsWith(endpoint0, <<"/">>)
                    THEN <<"/">> \o endpoint0
                    ELSE endpoint0
    IN  IF ~StartsWith(endpoint, ApiV1Slash)
        THEN base_url \o ApiV1 \o endpoint
        ELSE base_url \o endpoint

\* XRoadClient._build_url
_build_url(base_url, endpoint0) ==
    LET endpoint == IF ~StartsWith(endpoint0, <<"/">>)
                    THEN <<"/">> \o endpoint0
                    ELSE endpoint0
    IN  IF ~StartsWith(endpoint, ApiV1Slash)
        THEN IF StartsWith(endpoint, ApiSlash)
             THEN base_url \o endpoint
             ELSE base_url \o ApiV1 \o endpoint
        ELSE base_url \o endpoint

----------------------------------------------------------------------------
(* app/api/v1/*.py: get_xroad_client *)

\* a dependency that answers a custom api key without environment or base URL
\* with the shared singleton
get_xroad_client_reuse_shared(s, custom_base_url, custom_api_key, env_prefix) ==
    IF Truthy(env_prefix)
    THEN LET env_config == get_xroad_config(s, env_prefix)
         IN  IF env_config.exc # None
             THEN [exc |-> env_config.exc, ref |-> None]
             ELSE [ exc |-> None, ref |-> "own",
                    client |-> create_xroad_client(s,
                                  OrUrl(custom_base_url, env_config.base_url),
                                  OrAtom(custom_api_key, env_config.api_key),
                                  env_config.timeout) ]
    ELSE IF TruthyUrl(custom_base_url)
         THEN [ exc |-> None, ref |-> "own",
                client |-> create_xroad_client(s, custom_base_url, custom_api_key, 0) ]
         ELSE [exc |-> None, ref |-> "singleton"]

\* The dependency every router declares.  Returns the client to use: ref says
\* whether it is the shared singleton or a freshly created object.
get_xroad_client(s, custom_base_url, custom_api_key, env_prefix) ==
    IF Truthy(env_prefix)
    THEN LET env_config == get_xroad_config(s, env_prefix)
         IN  IF env_config.exc # None
             THEN [exc |-> env_config.exc, ref |-> None]
             ELSE [ exc |-> None, ref |-> "own",
                    client |-> create_xroad_client(s,
                                  OrUrl(custom_base_url, env_config.base_url),
                                  OrAtom(custom_api_key, env_config.api_key),
                                  env_config.timeout) ]
    ELSE IF TruthyUrl(custom_base_url) \/ Truthy(custom_api_key)
         THEN [ exc |-> None, ref |-> "own",
                client |-> create_xroad_client(s, custom_base_url, custom_api_key, 0) ]
         ELSE [exc |-> None, ref |-> "singleton"]

----------------------------------------------------------------------------
(* The transport underneath the client (httpx), as the client uses it *)

MultipartType == <<"multipart/form-data", "boundary">>

\* dict-valued arguments a caller passes: nothing, an empty dict, a dict of text
\* fields, a dict holding a value no encoder accepts (e.g. a set)
DataValues == {None, "{}", "fields", "unserializable"}
FilesValues == {None, "{}", "parts"}
ParamsValues == {None, "query"}

\* json.dumps(value) as bytes
JsonEncode(d) ==
    CASE d = "{}"     -> "b'{}'"
      [] d = "fields" -> "b'{\"name\": \"value\"}'"
      [] d = None     -> "b'null'"
      [] OTHER        -> "TypeError"

\* headers.pop(name, None) on a copy
Pop(h, name) == [k \in DOMAIN h \ {name} |-> h[k]]

\* httpx.AsyncClient.request(method, url, headers, json, files, data, params): the
\* request put on the wire, or exc = "TypeError" when a value cannot be encoded.
\* httpx picks the body by `files` (multipart), else `data` (urlencoded), else
\* `json is not None` (JSON), else none; the encoder's own Content-Type is used
\* only when the caller's headers carry none.
BuildRequest(method, url, headers, json, files, data, params) ==
    LET body == IF Truthy(files) THEN "multipart"
                ELSE IF Truthy(data) THEN "urlencoded"
                ELSE IF json # None THEN "json"
                ELSE "empty"
        bad == \/ body \in {"multipart", "urlencoded"} /\ data = "unserializable"
               \/ body = "json" /\ JsonEncode(json) = "TypeError"
        own == CASE body = "multipart"  -> ("Content-Type" :> MultipartType)
                 [] body = "urlencoded" -> ("Content-Type" :> <<"application/x-www-form-urlencoded">>)
                 [] body = "json"       -> ("Content-Type" :> <<JsonType>>)
                 [] OTHER               -> [k \in {} |-> <<>>]
    IN  [ exc         |-> IF bad THEN "TypeError" ELSE None,
          method      |-> method,
          url         |-> url,
          headers     |-> headers @@ own,
          body        |-> body,
          json_body   |-> IF body = "json" THEN JsonEncode(json) ELSE None,
          form_fields |-> IF body \in {"multipart", "urlencoded"} /\ Truthy(data)
                          THEN data ELSE None,
          file_parts  |-> IF body = "multipart" THEN files ELSE None,
          params      |-> params ]

\* upstream bodies: JSON object, JSON object with a warnings list, JSON array,
\* JSON null, bytes that are no JSON, no bytes at all
Bodies == {"b_obj", "b_warn", "b_arr", "b_null", "b_bin", "b_empty"}

\* response.json(): the decoded value, or JSONDecodeError
JsonDecode(b) ==
    CASE b = "b_obj"  -> "obj"
      [] b = "b_warn" -> "obj_with_warnings"
      [] b = "b_arr"  -> "arr"
      [] b = "b_null" -> None
      [] OTHER        -> "JSONDecodeError"

Statuses == {200, 204, 400, 503}

ContentTypeHeader(ct) == IF ct = None THEN [k \in {} |-> ""] ELSE ("content-type" :> ct)

\* what the upstream may answer
Responses ==
    { [status_code |-> st, content |-> bt[1], headers |-> ContentTypeHeader(bt[2])] :
        st \in Statuses,
        bt \in { <<"b_obj", JsonType>>, <<"b_warn", JsonType>>, <<"b_arr", JsonType>>,
                 <<"b_null", JsonType>>, <<"b_bin", "application/x-pem-file">>,
                 <<"b_bin", None>>, <<"b_empty", None>> } }

\* exceptions the awaited request may end with; str(e) may be empty
RequestErrors == {"ConnectError", "ReadTimeout"}
OtherErrors == {"RuntimeError"}
Exceptions ==
    { [type |-> t, msg |-> m] : t \in RequestErrors \cup OtherErrors,
                                m \in {<<>>, <<"All connection attempts failed">>} }

----------------------------------------------------------------------------
(* XRoadClient._make_request and the public methods *)

\* keyword arguments each public method accepts (lines 100-120)
Accepts(method) ==
    CASE method = "GET"    -> {"params"}
      [] method = "POST"   -> {"data", "files"}
      [] method = "PUT"    -> {"data"}
      [] method = "PATCH"  -> {"data", "files"}
      [] method = "DELETE" -> {"params"}

Methods == {"GET", "POST", "PUT", "PATCH", "DELETE"}

\* keyword arguments the caller passes (an argument left out is None)
Passed(data, files, params) ==
    {k \in {"data", "files", "params"} :
        \/ k = "data" /\ data # None
        \/ k = "files" /\ files # None
        \/ k = "params" /\ params # None}

\* the per-call headers with Content-Type left in place for multipart calls
RequestHeaders_keep_content_type(client_headers, files) == client_headers

\* lines 49-53: the per-call headers
RequestHeaders(client_headers, files) ==
    IF Truthy(files) THEN Pop(client_headers, "Content-Type") ELSE client_headers

\* client.request called with data=data in both modes (form fields instead of json=)
OutgoingRequest_data_as_form(client, method, endpoint, data, files, params) ==
    BuildRequest(method,
                 _build_url(client.base_url, endpoint),
                 RequestHeaders(client.headers, files),
                 None,
                 files,
                 data,
                 params)

\* a _make_request that picks the payload mode by `files is not None`
OutgoingRequest_mode_by_presence(client, method, endpoint, data, files, params) ==
    BuildRequest(method,
                 _build_url(client.base_url, endpoint),
                 IF files # None THEN Pop(client.headers, "Content-Type")
                 ELSE client.headers,
                 IF files = None THEN data ELSE None,
                 files,
                 IF files # None THEN data ELSE None,
                 params)

\* lines 55-63: the arguments handed to client.request
OutgoingRequest(client, method, endpoint, data, files, params) ==
    BuildRequest(method,
                 _build_url(client.base_url, endpoint),
                 RequestHeaders(client.headers, files),
                 IF ~Truthy(files) THEN data ELSE None,
                 files,
                 IF Truthy(files) THEN data ELSE None,
                 params)

\* response normalisation that reports a body that is no JSON as an error as well
Normalize_decode_failure_as_error(response) ==
    IF response.status_code = 204
    THEN [status |-> "success", data |-> None]
    ELSE IF JsonDecode(response.content) # "JSONDecodeError"
         THEN [ status_code |-> response.status_code,
                data        |-> JsonDecode(response.content),
                headers     |-> response.headers ]
         ELSE [ status_code  |-> response.status_code,
                data         |-> response.content,
                headers      |-> response.headers,
                error        |-> <<"Invalid JSON">>,
                content_type |-> IF "content-type" \in DOMAIN response.headers
                                 THEN response.headers["content-type"]
                                 ELSE "application/octet-stream" ]

\* response normalisation that classifies an upstream status >= 400 as a failure
\* and reports it in the error field
Normalize_classify_upstream_errors(response) ==
    IF response.status_code = 204
    THEN [status |-> "success", data |-> None]
    ELSE IF response.status_code >= 400
         THEN [ status_code |-> response.status_code,
                error       |-> <<"Upstream error">>,
                data        |-> None ]
         ELSE IF JsonDecode(response.content) # "JSONDecodeError"
              THEN [ status_code |-> response.status_code,
                     data        |-> JsonDecode(response.content),
                     headers     |-> response.headers ]
              ELSE [ status_code  |-> response.status_code,
                     data         |-> response.content,
                     headers      |-> response.headers,
                     content_type |-> IF "content-type" \in DOMAIN response.headers
                                      THEN response.headers["content-type"]
                                      ELSE "application/octet-stream" ]

\* response normalisation that takes the content type from the header alone
Normalize_no_default_content_type(response) ==
    IF response.status_code = 204
    THEN [status |-> "success", data |-> None]
    ELSE IF JsonDecode(response.content) # "JSONDecodeError"
         THEN [ status_code |-> response.status_code,
                data        |-> JsonDecode(response.content),
                headers     |-> response.headers ]
         ELSE [ status_code  |-> response.status_code,
                data         |-> response.content,
                headers      |-> response.headers,
                content_type |-> IF "content-type" \in DOMAIN response.headers
                                 THEN response.headers["content-type"]
                                 ELSE None ]

\* lines 66-84: response normalisation
Normalize(response) ==
    IF response.status_code = 204
    THEN [status |-> "success", data |-> None]
    ELSE IF JsonDecode(response.content) # "JSONDecodeError"
         THEN [ status_code |-> response.status_code,
                data        |-> JsonDecode(response.content),
                headers     |-> response.headers ]
         ELSE [ status_code  |-> response.status_code,
                data         |-> response.content,
                headers      |-> response.headers,
                content_type |-> IF "content-type" \in DOMAIN response.headers
                                 THEN response.headers["content-type"]
                                 ELSE "application/octet-stream" ]

\* "error" in result
HasErrorKey(result) == "error" \in DOMAIN result

\* exception handlers that report str(e) alone
ErrorResult_message_only(e) ==
    [status_code |-> 500, error |-> e.msg, data |-> None]

\* lines 86-97: the two exception handlers
ErrorResult(e) ==
    IF e.type \in RequestErrors
    THEN [status_code |-> 500, error |-> <<"Request failed: ">> \o e.msg, data |-> None]
    ELSE [status_code |-> 500, error |-> <<"Unexpected error: ">> \o e.msg, data |-> None]

\* lines 49-53 work on `self.headers.copy()`: the client object after a request of
\* its own has been built, here with the Content-Type popped from self.headers
SelfAfterRequest_pop_in_place(self, files) ==
    [self EXCEPT !.headers = RequestHeaders(self.headers, files)]

\* a _make_request that keeps the URL prefix it built on the client
SelfAfterRequest_rebase(self, files) == [self EXCEPT !.base_url = @ \o ApiV1]

\* a _make_request that sets the multipart Content-Type on self.headers
SelfAfterRequest_multipart_headers(self, files) ==
    IF Truthy(files)
    THEN [self EXCEPT !.headers = ("Content-Type" :> MultipartType) @@ @]
    ELSE self

\* lines 49-53: the client object after a request has been built from it
SelfAfterRequest(self, files) == self

\* an httpx.AsyncClient that is created without `async with` and never closed
ConnectionOnExit_left_open(connection) == connection

\* line 47: `async with httpx.AsyncClient(...) as client` closes the connection
\* when the block is left, by a return or by an exception
ConnectionOnExit(connection) == "closed"

\* response.json() called before the status is looked at
DecodeAttempted_always(response) == TRUE

\* lines 66-71: whether response.json() is called on the response; the 204 branch
\* returns before the decoder is reached
DecodeAttempted(response) == response.status_code # 204

----------------------------------------------------------------------------
(* app/api/v1/*.py: the route handlers *)

\* result.get("status_code", default)
GetStatusCode(result, default) ==
    IF "status_code" \in DOMAIN result THEN result.status_code ELSE default

\* the detail every handler falls back on: "Failed to <operation>"
FallbackDetail == <<"Failed to ...">>

\* `"warnings" in data`: membership in a dict or a list, TypeError on None and on
\* bytes
ContainsWarnings(data) ==
    CASE data = "obj_with_warnings"           -> "True"
      [] data \in {"obj", "arr", "{}"}         -> "False"
      [] OTHER                                 -> "TypeError"

\* what FastAPI answers for an exception no handler catches
Unhandled == [kind |-> "unhandled", status_code |-> 500,
              body |-> [text |-> <<"Internal Server Error">>]]

\* the tail 143 handlers share (e.g. x_road_cs_member_classes.get_member_classes,
\* x_road_cs_trusted.upload_trusted_anchor)
StandardHandler(result) ==
    IF GetStatusCode(result, 200) >= 400
    THEN [ kind |-> "HTTPException",
           status_code |-> GetStatusCode(result, 500),
           body |-> IF HasErrorKey(result) THEN [text |-> result.error]
                    ELSE [text |-> FallbackDetail] ]
    ELSE [kind |-> "return", status_code |-> 200, body |-> [payload |-> result.data]]

\* the tail of the three upload handlers with a warnings branch
\* (x_road_cs_backup.upload_backup, x_road_ss_backup.upload_security_server_backup,
\* x-road-cs-certification.add_certification_service)
WarningHandler(result) ==
    IF GetStatusCode(result, 0) = 400
    THEN CASE ContainsWarnings(result.data) = "TypeError" -> Unhandled
           [] ContainsWarnings(result.data) = "True" ->
                [ kind |-> "HTTPException", status_code |-> 400,
                  body |-> [payload |-> result.data] ]
           [] OTHER -> StandardHandler(result)
    ELSE StandardHandler(result)

\* x_road_ss_diagnostics.get_all_diagnostics: the six probes, in order
DiagnosticsProbes ==
    << [key |-> "global_configuration",   endpoint |-> <<"/", "diagnostics", "/", "globalconf">>],
       [key |-> "ocsp_responders",        endpoint |-> <<"/", "diagnostics", "/", "ocsp-responders">>],
       [key |-> "timestamping_services",  endpoint |-> <<"/", "diagnostics", "/", "timestamping-services">>],
       [key |-> "addon_status",           endpoint |-> <<"/", "diagnostics", "/", "addon-status">>],
       [key |-> "backup_encryption",      endpoint |-> <<"/", "diagnostics", "/", "backup-encryption-status">>],
       [key |-> "message_log_encryption", endpoint |-> <<"/", "diagnostics", "/", "message-log-encryption-status">>] >>

\* a probe that records a placeholder under the key of a failed probe
Collected_placeholder_on_failure(diagnostics, key, result) ==
    IF GetStatusCode(result, 200) < 400
    THEN (key :> result.data) @@ diagnostics
    ELSE (key :> "Failed to retrieve") @@ diagnostics

\* one probe of get_all_diagnostics: the key is set only for a status below 400
Collected(diagnostics, key, result) ==
    IF GetStatusCode(result, 200) < 400
    THEN (key :> result.data) @@ diagnostics
    ELSE diagnostics

\* get_all_diagnostics returns what it collected, whatever the probes answered
DiagnosticsHandler(diagnostics) ==
    [kind |-> "return", status_code |-> 200, body |-> [diagnostics |-> diagnostics]]

\* the three shapes of health handler: status below 400
\* (x_road_cs_backup.backup_health_check), status 200 or 404
\* (x_road_ss_token_certificates.token_certificates_health_check), status below
\* 400 with a count of the payload
\* (x_road_ss_timestamps.timestamping_services_health_check)
HealthHandlers == {"health", "health_endpoint", "health_count"}

\* the probe each of them sends
HealthEndpoint(h) ==
    CASE h = "health"          -> <<"/", "backups">>
      [] h = "health_endpoint" -> <<"/", "token-certificates", "/", "nonexistent">>
      [] OTHER                 -> <<"/", "timestamping-services">>

\* the dict a health handler returns
HealthAnswer(flag) ==
    [ kind |-> "return", status_code |-> 200,
      body |-> [status |-> IF flag THEN "healthy" ELSE "unhealthy"] ]

\* the try block of a health handler and its except branch
HealthHandler(h, result) ==
    CASE h = "health" ->
            HealthAnswer(GetStatusCode(result, 200) < 400)
      [] h = "health_endpoint" ->
            HealthAnswer(GetStatusCode(result, 500) \in {200, 404})
      [] OTHER ->
            IF GetStatusCode(result, 200) < 400 /\ result.data = None
            THEN [ kind |-> "return", status_code |-> 200,
                   body |-> [ status |-> "unhealthy",
                              error  |-> <<"object of type 'NoneType' has no len()">> ] ]
            ELSE HealthAnswer(GetStatusCode(result, 200) < 400)

\* x_road_cs_ocsp_responders.update_ocsp_responder and
\* x_road_cs_timestamping_management_requests.update_timestamping_service: what
\* they answer when neither url nor certificate is given
NoFieldsAnswer ==
    [ kind |-> "HTTPException", status_code |-> 400,
      body |-> [text |-> <<"At least one field (url or certificate) must be provided for update">>] ]

UpdateEndpoint == <<"/", "ocsp-responders", "/", "1">>

Handlers == {"standard", "warnings", "diagnostics", "update"} \cup HealthHandlers

\* upload_backup puts its query into the endpoint: f"/backups/upload?ignore_warnings=..."
UploadEndpoint == <<"/", "backups", "/", "upload", "?", "ignore_warnings=false">>

\* endpoints the other handlers are explored with
MainEndpoints ==
    { <<"/", "certification-services">>, <<"system", "/", "anchor">>,
      <<"/", "api", "/", "v1", "/", "backups">> }

\* the client call a handler of kind h makes
HandlerCalls(h, probe, method, endpoint, data, files, params) ==
    CASE h = "warnings" ->
            /\ method = "POST"
            /\ endpoint = UploadEndpoint
            /\ data \in {None, "fields"} /\ Truthy(files) /\ params = None
      [] h = "diagnostics" ->
            /\ method = "GET"
            /\ endpoint = DiagnosticsProbes[probe].endpoint
            /\ data = None /\ files = None /\ params = None
      [] h \in HealthHandlers ->
            /\ method = "GET"
            /\ endpoint = HealthEndpoint(h)
            /\ data = None /\ files = None /\ params = None
      [] h = "update" ->
            /\ method = "PATCH"
            /\ endpoint = UpdateEndpoint
            /\ data \in {"{}", "fields"} /\ files \in {"{}", "parts"}
            /\ Truthy(data) \/ Truthy(files)
            /\ params = None
      [] OTHER -> endpoint \in MainEndpoints

\* upstream answers the health probes are explored with
HealthResponses ==
    { [status_code |-> st, content |-> "b_obj", headers |-> ContentTypeHeader(JsonType)] :
        st \in {200, 204, 404, 503} }
    \cup { [status_code |-> 200, content |-> "b_null",
            headers |-> ContentTypeHeader(JsonType)] }

\* upstream answers the probes of get_all_diagnostics are explored with
ProbeResponses == {r \in Responses : r.content = "b_obj" /\ r.status_code \in {200, 503}}

----------------------------------------------------------------------------
(* State *)

NoClient == [base_url |-> <<>>, api_key |-> None, timeout |-> 0,
             headers |-> [k \in {} |-> <<>>]]
NoRequest == [exc |-> None, body |-> "unsent"]
NoResponse == [kind |-> "none"]
NoResult == [pending |-> TRUE]
NoConfig == [base_url |-> NoneUrl, api_key |-> None, timeout |-> 0]
NoArgs == [fn |-> None]
NoRet == [done |-> FALSE]
NoDiagnostics == [k \in {} |-> None]
NoAnswer == [kind |-> "none"]
NoTarget == [custom_base_url |-> NoneUrl, custom_api_key |-> None, env_prefix |-> None]

\* the {base_url, api_key, timeout} of a client
TargetOf(client) ==
    [base_url |-> client.base_url, api_key |-> client.api_key, timeout |-> client.timeout]

IdleCall ==
    [ pc |-> "idle", handler |-> None, target |-> NoTarget, resolved |-> NoConfig,
      ref |-> None, own |-> NoClient, exc |-> None, raised_in |-> None,
      method |-> None, endpoint |-> <<>>, data |-> None, files |-> None, params |-> None,
      request |-> NoRequest, upstream |-> NoResponse, decoded |-> FALSE,
      result |-> NoResult, attempts |-> 0, outbound |-> 0, connection |-> "none",
      probe |-> 1, probed |-> <<>>, diagnostics |-> NoDiagnostics,
      response |-> NoAnswer ]

\* the client object a call works on
ClientOf(c) == IF c.ref = "singleton" THEN xroad_client ELSE c.own

\* settings the forwarding specification starts from: DEV configures its base URL
\* only, PROD and TEST configure nothing
MainSettings ==
    { Settings(SsHost \o Slashes(n),
               [E \in EnvNames |-> IF E = "DEV" THEN {"BASE_URL"} ELSE {}]) :
        n \in {0, MaxTrailingSlashes} }

CustomBaseUrl == <<"https://custom.example:4000", "/">>
CustomApiKey == "custom-key"

Init ==
    /\ settings \in MainSettings
    /\ xroad_client = XRoadClient(settings, NoneUrl, None, 0)
    /\ call = [i \in Calls |-> IdleCall]
    /\ args = NoArgs
    /\ ret = NoRet

----------------------------------------------------------------------------
(* Actions *)

\* an inbound request reaches a handler of kind h and FastAPI resolves its
\* get_xroad_client dependency
Resolve(i, h, custom_base_url, custom_api_key, env_prefix) ==
    /\ call[i].pc = "idle"
    /\ LET r == get_xroad_client(settings, custom_base_url, custom_api_key, env_prefix)
           target == [custom_base_url |-> custom_base_url,
                      custom_api_key |-> custom_api_key, env_prefix |-> env_prefix]
       IN  call' = [call EXCEPT ![i] =
                IF r.exc # None
                THEN [@ EXCEPT !.pc = "raised", !.handler = h, !.target = target,
                               !.exc = r.exc, !.raised_in = "get_xroad_client"]
                ELSE [@ EXCEPT !.pc = "resolved", !.handler = h, !.target = target,
                               !.ref = r.ref,
                               !.resolved = TargetOf(IF r.ref = "own" THEN r.client
                                                     ELSE xroad_client),
                               !.own = IF r.ref = "own" THEN r.client ELSE NoClient]]
    /\ UNCHANGED <<settings, xroad_client, args, ret>>

\* the handler calls client.get/post/put/patch/delete: Python binds the keyword
\* arguments to the method's signature, then _make_request starts
Invoke(i, method, endpoint, data, files, params) ==
    /\ call[i].pc = "resolved"
    /\ HandlerCalls(call[i].handler, call[i].probe, method, endpoint, data, files, params)
    /\ call' = [call EXCEPT ![i] =
            IF Passed(data, files, params) \subseteq Accepts(method)
            THEN [@ EXCEPT !.pc = "called", !.method = method, !.endpoint = endpoint,
                           !.data = data, !.files = files, !.params = params,
                           !.outbound = @ + 1]
            ELSE [@ EXCEPT !.pc = "raised", !.exc = "TypeError",
                           !.raised_in = "XRoadClient", !.method = method,
                           !.endpoint = endpoint,
                           !.data = data, !.files = files, !.params = params]]
    /\ UNCHANGED <<settings, xroad_client, args, ret>>

\* an update handler called with neither url nor certificate raises its own 400
\* before any client call (`if not data and not files`)
Reject(i) ==
    /\ call[i].pc = "resolved"
    /\ call[i].handler = "update"
    /\ call' = [call EXCEPT ![i] =
            [@ EXCEPT !.pc = "answered", !.data = "{}", !.files = "{}",
                      !.response = NoFieldsAnswer]]
    /\ UNCHANGED <<settings, xroad_client, args, ret>>

\* _make_request lines 45-63: build the URL and the headers, hand the request to
\* the transport; a value that cannot be encoded raises inside the try block
Send(i) ==
    /\ call[i].pc = "called"
    /\ LET c == call[i]
           req == OutgoingRequest(ClientOf(c), c.method, c.endpoint, c.data, c.files,
                                  c.params)
       IN  /\ call' = [call EXCEPT ![i] =
                  [ (IF req.exc # None
                     THEN [@ EXCEPT !.pc = "done",
                                    !.connection = ConnectionOnExit("open"),
                                    !.result = ErrorResult([type |-> req.exc, msg |-> <<"not serializable">>])]
                     ELSE [@ EXCEPT !.pc = "awaiting", !.request = req,
                                    !.connection = "open",
                                    !.attempts = @ + 1])
                    EXCEPT !.own = IF c.ref = "own" THEN SelfAfterRequest(c.own, c.files)
                                   ELSE c.own ]]
           /\ xroad_client' = IF c.ref = "singleton"
                              THEN SelfAfterRequest(xroad_client, c.files)
                              ELSE xroad_client
    /\ UNCHANGED <<settings, args, ret>>

\* the upstream answers: lines 65-84
Receive(i, response) ==
    /\ call[i].pc = "awaiting"
    /\ response \in CASE call[i].handler = "diagnostics" -> ProbeResponses
                       [] call[i].handler \in HealthHandlers -> HealthResponses
                       [] OTHER -> Responses
    /\ call' = [call EXCEPT ![i] =
            [@ EXCEPT !.pc = "done",
                      !.upstream = [kind |-> "response", response |-> response],
                      !.decoded = DecodeAttempted(response),
                      !.connection = ConnectionOnExit(@),
                      !.result = Normalize(response)]]
    /\ UNCHANGED <<settings, xroad_client, args, ret>>

\* exception handlers that send the request once more after a first failure
TransportError_retry_once(i, e) ==
    /\ call[i].pc = "awaiting"
    /\ call' = [call EXCEPT ![i] =
            IF call[i].attempts < 2
            THEN [@ EXCEPT !.attempts = @ + 1]
            ELSE [@ EXCEPT !.pc = "done",
                           !.upstream = [kind |-> "exception", exception |-> e],
                           !.result = ErrorResult(e)]]
    /\ UNCHANGED <<settings, xroad_client, args, ret>>

\* the awaited request ends with an exception: lines 86-97
TransportError(i, e) ==
    /\ call[i].pc = "awaiting"
    /\ call' = [call EXCEPT ![i] =
            [@ EXCEPT !.pc = "done",
                      !.upstream = [kind |-> "exception", exception |-> e],
                      !.connection = ConnectionOnExit(@),
                      !.result = ErrorResult(e)]]
    /\ UNCHANGED <<settings, xroad_client, args, ret>>

\* what a handler run notes of a finished client call: the endpoint it asked and
\* whether the result counts as a failure (status_code >= 400)
Probed(c) ==
    [ endpoint |-> c.endpoint,
      failed   |-> "status_code" \in DOMAIN c.result /\ c.result.status_code >= 400 ]

\* get_all_diagnostics takes the result of a probe and goes on to the next one
Collect(i) ==
    /\ call[i].pc = "done"
    /\ call[i].handler = "diagnostics"
    /\ call[i].probe < Len(DiagnosticsProbes)
    /\ LET c == call[i]
       IN  call' = [call EXCEPT ![i] =
                [@ EXCEPT !.pc = "resolved",
                          !.diagnostics = Collected(c.diagnostics,
                                                    DiagnosticsProbes[c.probe].key, c.result),
                          !.probe = @ + 1,
                          !.probed = Append(@, Probed(c)),
                          !.method = None, !.endpoint = <<>>,
                          !.request = NoRequest, !.upstream = NoResponse,
                          !.decoded = FALSE, !.result = NoResult, !.attempts = 0,
                          !.connection = "none"]]
    /\ UNCHANGED <<settings, xroad_client, args, ret>>

\* the handler finishes: it returns or raises from the result of its (last)
\* client call; an exception of the dependency or of the client call is caught by
\* nothing
Answer(i) ==
    /\ \/ call[i].pc = "raised"
       \/ /\ call[i].pc = "done"
          /\ call[i].handler = "diagnostics" => call[i].probe = Len(DiagnosticsProbes)
    /\ LET c == call[i]
           collected == Collected(c.diagnostics, DiagnosticsProbes[c.probe].key, c.result)
       IN  call' = [call EXCEPT ![i] =
                CASE c.pc = "raised" ->
                        [@ EXCEPT !.pc = "answered", !.response = Unhandled]
                  [] c.pc = "done" /\ c.handler \in {"standard", "update"} ->
                        [@ EXCEPT !.pc = "answered", !.response = StandardHandler(c.result)]
                  [] c.pc = "done" /\ c.handler = "warnings" ->
                        [@ EXCEPT !.pc = "answered", !.response = WarningHandler(c.result)]
                  [] c.pc = "done" /\ c.handler \in HealthHandlers ->
                        [@ EXCEPT !.pc = "answered",
                                  !.response = HealthHandler(c.handler, c.result)]
                  [] OTHER ->
                        [@ EXCEPT !.pc = "answered", !.diagnostics = collected,
                                  !.probed = Append(@, Probed(c)),
                                  !.response = DiagnosticsHandler(collected)]]
    /\ UNCHANGED <<settings, xroad_client, args, ret>>

\* the response has gone out; the slot serves the next request
Return(i) ==
    /\ call[i].pc = "answered"
    /\ call' = [call EXCEPT ![i] = IdleCall]
    /\ UNCHANGED <<settings, xroad_client, args, ret>>

Next ==
    \/ \E h \in Handlers, cb \in {NoneUrl, CustomBaseUrl}, ck \in {None, CustomApiKey},
          env \in {None, "dev", "prod"} : Resolve(1, h, cb, ck, env)
    \/ \E m \in Methods, ep \in MainEndpoints, d \in DataValues, f \in FilesValues,
          p \in ParamsValues : Invoke(1, m, ep, d, f, p)
    \/ \E d \in {None, "fields"}, f \in FilesValues :
          Invoke(1, "POST", UploadEndpoint, d, f, None)
    \/ \E k \in DOMAIN DiagnosticsProbes :
          Invoke(1, "GET", DiagnosticsProbes[k].endpoint, None, None, None)
    \/ \E h \in HealthHandlers :
          Invoke(1, "GET", HealthEndpoint(h), None, None, None)
    \/ \E d \in {"{}", "fields"}, f \in {"{}", "parts"} :
          Invoke(1, "PATCH", UpdateEndpoint, d, f, None)
    \/ Reject(1)
    \/ Send(1)
    \/ \E r \in Responses \cup HealthResponses : Receive(1, r)
    \/ \E e \in Exceptions : TransportError(1, e)
    \/ Collect(1)
    \/ Answer(1)
    \/ Return(1)

Spec == Init /\ [][Next]_vars

----------------------------------------------------------------------------
(* _build_url as a function: every endpoint up to MaxEndpointLen tokens, on a
   client constructed from every configured or caller-supplied base URL *)

Tokens == {"/", "api", "v1", "certification-services"}

AllEndpoints == UNION {[1..n -> Tokens] : n \in 0..MaxEndpointLen}

\* base_url arguments of the constructor: none, or a URL with trailing slashes
BaseUrlArgs == {NoneUrl} \cup {<<"https://custom.example:4000">> \o Slashes(n) :
                                  n \in 0..MaxTrailingSlashes}

InitUrl ==
    /\ settings \in MainSettings
    /\ xroad_client = XRoadClient(settings, NoneUrl, None, 0)
    /\ call = [i \in Calls |-> IdleCall]
    /\ args \in {[fn |-> "_build_url", base_url |-> b, endpoint |-> ep] :
                    b \in BaseUrlArgs, ep \in AllEndpoints}
    /\ ret = NoRet

BuildUrl ==
    /\ args.fn = "_build_url"
    /\ ~ret.done
    /\ LET client == XRoadClient(settings, args.base_url, None, 0)
       IN  ret' = [done |-> TRUE, base_url |-> client.base_url,
                   url |-> _build_url(client.base_url, args.endpoint)]
    /\ UNCHANGED <<settings, xroad_client, call, args>>

NextUrl == BuildUrl

SpecUrl == InitUrl /\ [][NextUrl]_vars

----------------------------------------------------------------------------
(* get_xroad_client as a function: every configuration of the three named
   environments, every combination of overrides *)

\* env_prefix values: none, the three of XRoadEnvironment, and a name that no
\* setting knows (x_road_cs_backup.get_xroad_client takes any string)
EnvPrefixes == {None, "dev", "prod", "test", "qa"}

InitResolve ==
    /\ settings \in AllSettings
    /\ xroad_client = XRoadClient(settings, NoneUrl, None, 0)
    /\ call = [i \in Calls |-> IdleCall]
    /\ args \in {[fn |-> "get_xroad_client", custom_base_url |-> cb,
                  custom_api_key |-> ck, env_prefix |-> env] :
                    cb \in {NoneUrl, CustomBaseUrl}, ck \in {None, CustomApiKey},
                    env \in EnvPrefixes}
                \cup {[fn |-> "get_xroad_config", env_prefix |-> env] :
                        env \in EnvPrefixes}
    /\ ret = NoRet

ResolveTarget ==
    /\ args.fn = "get_xroad_client"
    /\ ~ret.done
    /\ LET r == get_xroad_client(settings, args.custom_base_url, args.custom_api_key,
                                 args.env_prefix)
       IN  ret' = [done |-> TRUE, exc |-> r.exc, ref |-> r.ref,
                   client |-> IF r.exc # None THEN NoClient
                              ELSE IF r.ref = "singleton" THEN xroad_client
                              ELSE r.client]
    /\ UNCHANGED <<settings, xroad_client, call, args>>

GetConfig ==
    /\ args.fn = "get_xroad_config"
    /\ ~ret.done
    /\ LET r == get_xroad_config(settings, args.env_prefix)
       IN  ret' = [done |-> TRUE, exc |-> r.exc,
                   config |-> IF r.exc # None THEN NoConfig
                              ELSE [base_url |-> r.base_url, api_key |-> r.api_key,
                                    timeout |-> r.timeout]]
    /\ UNCHANGED <<settings, xroad_client, call, args>>

NextResolve == ResolveTarget \/ GetConfig

SpecResolve == InitResolve /\ [][NextResolve]_vars

----------------------------------------------------------------------------
(* Concurrent forwarded calls: every slot of Calls serves requests, interleaved
   at each await, on the shared singleton or on clients of their own *)

ConcResponses ==
    { r \in Responses :
        \/ r.status_code = 200 /\ r.content = "b_obj"
        \/ r.status_code = 400 /\ r.content = "b_bin" /\ "content-type" \notin DOMAIN r.headers }

ConcExceptions == {e \in Exceptions : e.type = "ReadTimeout" /\ e.msg = <<>>}

\* <<custom_api_key, env_prefix>> of the concurrent requests
ConcTargets == {<<None, None>>, <<CustomApiKey, None>>, <<None, "dev">>}

\* <<method, files>> of the concurrent calls: a JSON-mode call, a multipart call,
\* a call the method's signature rejects
ConcCalls == {<<"GET", None>>, <<"POST", "parts">>, <<"GET", "parts">>}

InitConc ==
    /\ settings = Settings(SsHost, [E \in EnvNames |-> IF E = "DEV" THEN {"BASE_URL"} ELSE {}])
    /\ xroad_client = XRoadClient(settings, NoneUrl, None, 0)
    /\ call = [i \in Calls |-> IdleCall]
    /\ args = NoArgs
    /\ ret = NoRet

NextConc ==
    \E i \in Calls :
        \/ \E t \in ConcTargets : Resolve(i, "standard", NoneUrl, t[1], t[2])
        \/ \E mf \in ConcCalls :
              Invoke(i, mf[1], <<"/", "certification-services">>, None, mf[2], None)
        \/ Send(i)
        \/ \E r \in ConcResponses : Receive(i, r)
        \/ \E e \in ConcExceptions : TransportError(i, e)
        \/ Answer(i)
        \/ Return(i)

SpecConc == InitConc /\ [][NextConc]_vars

----------------------------------------------------------------------------
(* Properties *)

\* a request of call c has been handed to the transport
Sent(c) == c.request.body # "unsent"

\* which of the three parts of a Forward Result a result dict has set
HasError(r) == "error" \in DOMAIN r
HasBinary(r) == "content_type" \in DOMAIN r
HasJson(r) == "content_type" \notin DOMAIN r /\ "data" \in DOMAIN r /\ r.data # None
PartsSet(r) ==
    (IF HasError(r) THEN 1 ELSE 0) + (IF HasBinary(r) THEN 1 ELSE 0)
        + (IF HasJson(r) THEN 1 ELSE 0)

\* C1: whenever the awaited upstream request of a call ends with an exception
\* (connection refused, timeout, ...), the call returns a result (it does not
\* raise) with status_code 500, a non-empty error description and data None.
C1_TransportFailureResult ==
    \A i \in Calls :
        call[i].upstream.kind = "exception" =>
            /\ call[i].pc \in {"done", "answered"}
            /\ {"status_code", "error", "data"} \subseteq DOMAIN call[i].result
            /\ call[i].result.status_code = 500
            /\ call[i].result.error # <<>>
            /\ call[i].result.data = None

C1_Witness ==
    \E i \in Calls :
        /\ call[i].pc = "done"
        /\ call[i].upstream.kind = "exception"
        /\ call[i].upstream.exception = [type |-> "ConnectError", msg |-> <<>>]
        /\ call[i].result.status_code = 500

\* C2: every result a forwarded call returns, on whatever path, has the key
\* status_code.
C2_StatusCodeAlwaysPopulated ==
    \A i \in Calls :
        call[i].pc = "done" => "status_code" \in DOMAIN call[i].result

\* C3 as stated: every returned result has exactly one of {decoded JSON payload,
\* binary payload with content type, error description} set.
C3_ExactlyOnePart ==
    \A i \in Calls :
        call[i].pc = "done" => PartsSet(call[i].result) = 1

\* C3 as amended: no returned result has two of the three parts set; a result has
\* none of them exactly when the upstream answered 204 or with the JSON body null
\* (data is None then), and exactly one otherwise.
C3_AtMostOnePart ==
    \A i \in Calls :
        call[i].pc = "done" =>
            LET r == call[i].result
                up == call[i].upstream
            IN  /\ PartsSet(r) <= 1
                /\ PartsSet(r) = 0 <=>
                      /\ up.kind = "response"
                      /\ \/ up.response.status_code = 204
                         \/ JsonDecode(up.response.content) = None
                /\ PartsSet(r) = 0 => r.data = None

C3_Witness ==
    \E i \in Calls :
        /\ call[i].pc = "done"
        /\ call[i].upstream.kind = "response"
        /\ call[i].upstream.response.status_code = 204
        /\ PartsSet(call[i].result) = 0

\* C4: no call of get/post/put/patch/delete ends with an exception escaping the
\* client to its caller.
C4_ClientNeverRaises ==
    \A i \in Calls :
        ~(call[i].pc = "raised" /\ call[i].raised_in = "XRoadClient")

\* C5: the URL _build_url yields contains the versioned prefix /api/v1 at most
\* once, the base URL it starts with ends in no slash and the path after it
\* starts with exactly one slash.
C5_NoDoublePrefix ==
    ret.done =>
        LET path == SubSeq(ret.url, Len(ret.base_url) + 1, Len(ret.url))
        IN  /\ Occurrences(ret.url, ApiV1) <= 1
            /\ ret.base_url = rstrip_slash(ret.base_url)
            /\ StartsWith(path, <<"/">>)
            /\ ~StartsWith(path, <<"/", "/">>)

\* the three-way mapping of the URL-construction section, in the order it is stated
ReferenceUrl(base_url, endpoint0) ==
    LET endpoint == IF StartsWith(endpoint0, <<"/">>) THEN endpoint0
                    ELSE <<"/">> \o endpoint0
    IN  CASE StartsWith(endpoint, ApiV1Slash) -> base_url \o endpoint
          [] ~StartsWith(endpoint, ApiV1Slash) /\ StartsWith(endpoint, ApiSlash) ->
                base_url \o endpoint
          [] OTHER -> base_url \o <<"/", "api", "/", "v1">> \o endpoint

\* C6: _build_url equals the three-way reference mapping, for every endpoint and
\* every client base URL.
C6_BuildUrlIsThreeWayMapping ==
    ret.done => ret.url = ReferenceUrl(ret.base_url, args.endpoint)

C6_Witness ==
    /\ ret.done
    /\ args.base_url = NoneUrl
    /\ args.endpoint = <<"/", "certification-services">>
    /\ ret.url = <<"https://x.example:4000", "/", "api", "/", "v1", "/",
                   "certification-services">>

\* C7: a request sent for a call with file parts is a multipart request: its
\* Content-Type is not application/json, it has no JSON body, it carries the file
\* parts, and the call's data (when given) travels as multipart form fields.
C7_MultipartWhenFiles ==
    \A i \in Calls :
        (Sent(call[i]) /\ Truthy(call[i].files)) =>
            LET req == call[i].request
            IN  /\ req.body = "multipart"
                /\ req.headers["Content-Type"] # <<JsonType>>
                /\ req.headers["Content-Type"] = MultipartType
                /\ req.json_body = None
                /\ req.file_parts = call[i].files
                /\ req.form_fields = IF Truthy(call[i].data) THEN call[i].data ELSE None

C7_Witness ==
    \E i \in Calls :
        /\ Sent(call[i])
        /\ call[i].method = "POST"
        /\ call[i].files = "parts"
        /\ call[i].data = "fields"
        /\ call[i].request.form_fields = "fields"
        /\ call[i].request.file_parts = "parts"

\* C8 as stated: a request sent for a call without file parts has content type
\* application/json and the JSON serialization of the call's data as its body.
C8_JsonBodyWithoutFiles ==
    \A i \in Calls :
        (Sent(call[i]) /\ ~Truthy(call[i].files)) =>
            LET req == call[i].request
            IN  /\ req.headers["Content-Type"] = <<JsonType>>
                /\ req.body = "json"
                /\ req.json_body = JsonEncode(call[i].data)

\* C8 as amended: a request sent for a call without file parts has content type
\* application/json and never form fields or file parts; its body is the JSON
\* serialization of the call's data when data is given, and empty when the call
\* has no data.
C8_JsonBodyWhenDataGiven ==
    \A i \in Calls :
        (Sent(call[i]) /\ ~Truthy(call[i].files)) =>
            LET req == call[i].request
            IN  /\ req.headers["Content-Type"] = <<JsonType>>
                /\ req.form_fields = None
                /\ req.file_parts = None
                /\ IF call[i].data # None
                   THEN req.body = "json" /\ req.json_body = JsonEncode(call[i].data)
                   ELSE req.body = "empty" /\ req.json_body = None

C8_Witness ==
    \E i \in Calls :
        /\ Sent(call[i])
        /\ call[i].method = "POST"
        /\ call[i].files = None
        /\ call[i].data = "fields"
        /\ call[i].request.body = "json"

\* C9: every request sent, JSON or multipart, carries the Authorization header
\* "X-Road-ApiKey token=" followed by the api_key of the call's client.
C9_AuthorizationHeader ==
    \A i \in Calls :
        Sent(call[i]) =>
            /\ "Authorization" \in DOMAIN call[i].request.headers
            /\ call[i].request.headers["Authorization"]
                  = <<"X-Road-ApiKey token=", ClientOf(call[i]).api_key>>

C9_Witness ==
    \E i \in Calls :
        /\ Sent(call[i])
        /\ call[i].request.body = "multipart"
        /\ call[i].ref = "own"
        /\ call[i].request.headers["Authorization"]
              = <<"X-Road-ApiKey token=", "custom-key">>

\* the field of the named environment, when the environment configures it
EnvConfigures(field) ==
    /\ Truthy(args.env_prefix)
    /\ ("XROAD_" \o Upper(args.env_prefix) \o field) \in DOMAIN settings

\* C10: resolution yields a target whose base_url (api_key) is the caller's
\* custom value when supplied, else the named environment's value when it
\* configures the field, else that of the process-wide default target.
C10_ResolutionPrecedence ==
    (ret.done /\ args.fn = "get_xroad_client") =>
        /\ ret.exc = None
        /\ ret.client.base_url =
              IF TruthyUrl(args.custom_base_url) THEN rstrip_slash(args.custom_base_url)
              ELSE IF EnvConfigures("_BASE_URL")
                      /\ TruthyUrl(settings["XROAD_" \o Upper(args.env_prefix) \o "_BASE_URL"])
                   THEN rstrip_slash(settings["XROAD_" \o Upper(args.env_prefix) \o "_BASE_URL"])
                   ELSE xroad_client.base_url
        /\ ret.client.api_key =
              IF Truthy(args.custom_api_key) THEN args.custom_api_key
              ELSE IF EnvConfigures("_API_KEY")
                      /\ Truthy(settings["XROAD_" \o Upper(args.env_prefix) \o "_API_KEY"])
                   THEN settings["XROAD_" \o Upper(args.env_prefix) \o "_API_KEY"]
                   ELSE xroad_client.api_key

\* the fields the named environment of args.env_prefix configures
ConfiguredFields ==
    LET name(field) == "XROAD_" \o Upper(args.env_prefix) \o field
    IN  {f \in {"_BASE_URL", "_API_KEY", "_TIMEOUT"} :
            /\ name(f) \in DOMAIN settings
            /\ CASE f = "_BASE_URL" -> TruthyUrl(settings[name(f)])
                 [] f = "_API_KEY"  -> Truthy(settings[name(f)])
                 [] OTHER           -> TruthyInt(settings[name(f)])}

\* C11: for a named environment that configures its base URL only,
\* get_xroad_config yields that base URL with the global default api_key and the
\* global default timeout, and so does the client get_xroad_client builds from it
\* when the caller supplies no custom value.
C11_BaseUrlOnlyEnvironment ==
    (ret.done /\ Truthy(args.env_prefix) /\ ConfiguredFields = {"_BASE_URL"}) =>
        LET env_url == settings["XROAD_" \o Upper(args.env_prefix) \o "_BASE_URL"]
        IN  /\ ret.exc = None
            /\ args.fn = "get_xroad_config" =>
                  ret.config = [ base_url |-> env_url,
                                 api_key  |-> settings.XROAD_API_KEY,
                                 timeout  |-> settings.XROAD_TIMEOUT ]
            /\ (/\ args.fn = "get_xroad_client"
                /\ ~TruthyUrl(args.custom_base_url)
                /\ ~Truthy(args.custom_api_key)) =>
                  /\ ret.client.base_url = env_url
                  /\ ret.client.api_key = settings.XROAD_API_KEY
                  /\ ret.client.timeout = settings.XROAD_TIMEOUT

C11_Witness ==
    /\ ret.done
    /\ args.fn = "get_xroad_config"
    /\ args.env_prefix = "dev"
    /\ settings.XROAD_DEV_API_KEY = None
    /\ settings.XROAD_DEV_TIMEOUT = 0
    /\ ret.config.base_url = <<"https://dev.example:4000">>
    /\ ret.config.api_key = "d54a4bfe-104c-4c39-87a4-5b847fa6680d"
    /\ ret.config.timeout = 30

\* C12: for a named environment that configures nothing, or an unknown environment
\* name, get_xroad_config raises nothing and returns the global default base URL,
\* api_key and timeout.
C12_UnconfiguredEnvironmentFallsBack ==
    (/\ ret.done
     /\ args.fn = "get_xroad_config"
     /\ Truthy(args.env_prefix)
     /\ ConfiguredFields = {}) =>
        /\ ret.exc = None
        /\ ret.config.base_url \in {settings.XROAD_BASE_URL_CS, settings.XROAD_BASE_URL_SS}
        /\ ret.config.api_key = settings.XROAD_API_KEY
        /\ ret.config.timeout = settings.XROAD_TIMEOUT

\* C13: when the upstream answers 400 with a JSON body (an error with a warnings
\* list), the call returns status_code 400 with data the decoded JSON unmodified
\* and the upstream headers; the result has no error field: the client does not
\* classify the response as a failure.
C13_UpstreamErrorPassedThrough ==
    \A i \in Calls :
        (/\ call[i].pc = "done"
         /\ call[i].upstream.kind = "response"
         /\ call[i].upstream.response.status_code = 400
         /\ call[i].upstream.response.content = "b_warn") =>
            /\ call[i].result = [ status_code |-> 400,
                                  data        |-> JsonDecode("b_warn"),
                                  headers     |-> call[i].upstream.response.headers ]
            /\ ~HasError(call[i].result)

C13_Witness ==
    \E i \in Calls :
        /\ call[i].pc = "done"
        /\ call[i].method = "POST"
        /\ call[i].files = "parts"
        /\ call[i].upstream.kind = "response"
        /\ call[i].upstream.response.status_code = 400
        /\ call[i].upstream.response.content = "b_warn"
        /\ call[i].result.data = "obj_with_warnings"

\* C14: whenever the upstream answered a call with a status >= 400 and a JSON
\* error body, the response the route handler produces carries that decoded
\* payload (warning codes and metadata included), not a generic message.
C14_ErrorPayloadPreserved ==
    \A i \in Calls :
        (/\ call[i].pc = "answered"
         /\ call[i].upstream.kind = "response"
         /\ call[i].upstream.response.status_code >= 400
         /\ JsonDecode(call[i].upstream.response.content) \in {"obj", "obj_with_warnings"}) =>
            call[i].response.body = [payload |-> call[i].result.data]

\* C15: whenever the result of a handler's client call has a status_code >= 400,
\* the handler answers with an HTTP error of that same status code; it never
\* returns a successful response.
C15_FailureEscalated ==
    \A i \in Calls :
        (/\ call[i].pc = "answered"
         /\ "status_code" \in DOMAIN call[i].result
         /\ call[i].result.status_code >= 400) =>
            /\ call[i].response.kind = "HTTPException"
            /\ call[i].response.status_code = call[i].result.status_code

\* C16: an upstream response with status 204 yields the successful result with
\* data None whatever its body holds, and response.json() is never called on it.
C16_NoContentNeverDecoded ==
    \A i \in Calls :
        (/\ call[i].upstream.kind = "response"
         /\ call[i].upstream.response.status_code = 204) =>
            /\ call[i].result = [status |-> "success", data |-> None]
            /\ ~HasError(call[i].result)
            /\ ~call[i].decoded

C16_Witness ==
    \E i \in Calls :
        /\ call[i].pc = "done"
        /\ call[i].method = "DELETE"
        /\ call[i].upstream.kind = "response"
        /\ call[i].upstream.response.status_code = 204
        /\ call[i].upstream.response.content = "b_bin"
        /\ call[i].result.status = "success"
        /\ call[i].result.data = None

\* C17: when the body of an upstream response (status other than 204) is no
\* JSON, the result has exactly the keys status_code, data, headers and
\* content_type: the upstream status, the raw bytes, the response headers, and the
\* content-type header or application/octet-stream when there is none; it has no
\* error key.
C17_BinaryFallback ==
    \A i \in Calls :
        (/\ call[i].upstream.kind = "response"
         /\ call[i].upstream.response.status_code # 204
         /\ JsonDecode(call[i].upstream.response.content) = "JSONDecodeError") =>
            LET up == call[i].upstream.response
                r == call[i].result
            IN  /\ DOMAIN r = {"status_code", "data", "headers", "content_type"}
                /\ r.status_code = up.status_code
                /\ r.data = up.content
                /\ r.headers = up.headers
                /\ r.content_type = IF "content-type" \in DOMAIN up.headers
                                    THEN up.headers["content-type"]
                                    ELSE "application/octet-stream"
                /\ ~HasError(r)

C17_Witness ==
    \E i \in Calls :
        /\ call[i].pc = "done"
        /\ call[i].upstream.kind = "response"
        /\ call[i].upstream.response.status_code = 503
        /\ call[i].upstream.response.content = "b_bin"
        /\ "content-type" \notin DOMAIN call[i].upstream.response.headers
        /\ call[i].result.status_code = 503
        /\ call[i].result.data = "b_bin"
        /\ call[i].result.content_type = "application/octet-stream"

\* C18: query parameters a caller supplies reach the outgoing request, for every
\* method and in both payload modes: the call is accepted (no TypeError binding
\* the arguments) and the request sent for it carries those params.
C18_ParamsReachRequest ==
    \A i \in Calls :
        call[i].params # None =>
            /\ ~(call[i].exc = "TypeError" /\ call[i].raised_in = "XRoadClient")
            /\ Sent(call[i]) => call[i].request.params = call[i].params

\* the client a call would work on had no other call ever run: the singleton as
\* constructed at import, or the client get_xroad_client creates for the call
ClientAsResolved(c) ==
    LET r == get_xroad_client(settings, c.target.custom_base_url,
                              c.target.custom_api_key, c.target.env_prefix)
    IN  IF r.ref = "singleton" THEN XRoadClient(settings, NoneUrl, None, 0)
        ELSE r.client

\* C19: under every interleaving of concurrent calls, the request sent for a call
\* (URL, headers, payload) is the one its own inputs produce on its own target, and
\* its result is the one its own upstream response or exception produces.
C19_CallsIndependent ==
    \A i \in Calls :
        LET c == call[i]
        IN  /\ Sent(c) =>
                  c.request = OutgoingRequest(ClientAsResolved(c), c.method, c.endpoint,
                                              c.data, c.files, c.params)
            /\ c.upstream.kind = "response" => c.result = Normalize(c.upstream.response)
            /\ c.upstream.kind = "exception" => c.result = ErrorResult(c.upstream.exception)

C19_Witness ==
    \E i, j \in Calls :
        /\ i # j
        /\ call[i].ref = "singleton" /\ call[j].ref = "singleton"
        /\ call[i].pc = "awaiting" /\ call[i].request.body = "multipart"
        /\ call[j].pc = "done" /\ call[j].method = "GET"
        /\ call[j].upstream.kind = "response"
        /\ call[j].request.headers["Content-Type"] = <<JsonType>>

\* the caller of a call asked for settings other than the default ones
Overrides(c) ==
    \/ TruthyUrl(c.target.custom_base_url)
    \/ Truthy(c.target.custom_api_key)
    \/ Truthy(c.target.env_prefix)

\* C20: after any sequence of resolutions and forwarded calls the shared default
\* client is as constructed (base_url, api_key, timeout, headers); a call that
\* asks for a custom base URL, a custom key or a named environment works on a
\* client of its own, which stays as created, and a call that asks for none works
\* on the singleton.
C20_TargetsImmutable ==
    /\ xroad_client = XRoadClient(settings, NoneUrl, None, 0)
    /\ xroad_client.base_url = rstrip_slash(settings.XROAD_BASE_URL_SS)
    /\ xroad_client.api_key = settings.XROAD_API_KEY_SS
    /\ xroad_client.timeout = settings.XROAD_TIMEOUT
    /\ \A i \in Calls :
          call[i].ref # None =>
              IF Overrides(call[i])
              THEN /\ call[i].ref = "own"
                   /\ call[i].own = ClientAsResolved(call[i])
              ELSE call[i].ref = "singleton"

C20_Witness ==
    \E i \in Calls :
        /\ call[i].pc = "answered"
        /\ call[i].target.custom_api_key = "custom-key"
        /\ call[i].target.env_prefix = "dev"
        /\ call[i].ref = "own"
        /\ call[i].own.api_key = "custom-key"
        /\ call[i].own.base_url = <<"https://dev.example:4000">>
        /\ Sent(call[i])
        /\ xroad_client.api_key = "ss-default-key"
        /\ xroad_client.base_url = <<"https://x.example:4000">>

\* C21: for each forwarded call at most one request is handed to the transport;
\* a call whose request ended with an exception has made exactly one attempt and
\* is finished with its error result.
C21_NoRetries ==
    /\ \A i \in Calls :
          /\ call[i].attempts <= 1
          /\ call[i].upstream.kind = "exception" =>
                /\ call[i].attempts = 1
                /\ call[i].pc \in {"done", "answered"}
                /\ call[i].result = ErrorResult(call[i].upstream.exception)

C21_Witness ==
    \E i \in Calls :
        /\ call[i].pc = "answered"
        /\ call[i].upstream.kind = "exception"
        /\ call[i].upstream.exception.type = "ReadTimeout"
        /\ call[i].attempts = 1
        /\ call[i].response.status_code = 500

\* C22: every inbound request whose handler ran to its answer without an
\* exception has issued exactly one client call.
C22_OneOutboundCall ==
    \A i \in Calls :
        (call[i].pc = "answered" /\ call[i].exc = None) => call[i].outbound = 1

\* C23: a health handler that ran without an exception has sent one GET probe
\* and answers with its flag, never with an error response; it reports healthy
\* exactly when the status_code of the probe's result is below 400 (a result
\* without status_code, from a 204, counting as success).
C23_HealthFlag ==
    \A i \in Calls :
        (/\ call[i].pc = "answered"
         /\ call[i].handler \in HealthHandlers
         /\ call[i].exc = None) =>
            /\ call[i].method = "GET"
            /\ call[i].response.kind = "return"
            /\ call[i].response.body.status = "healthy"
                  <=> GetStatusCode(call[i].result, 200) < 400

\* C24: a forwarded call has an open upstream connection exactly while it awaits
\* the upstream; once it holds its result (decoded, raw bytes or error) its
\* connection is closed, and before it sends it has none. Every open connection
\* belongs to one awaiting call.
C24_ConnectionScopedToCall ==
    /\ \A i \in Calls :
          /\ call[i].pc = "awaiting" <=> call[i].connection = "open"
          /\ (call[i].pc \in {"done", "answered"} /\ call[i].result # NoResult) =>
                call[i].connection = "closed"
          /\ call[i].pc \in {"idle", "resolved", "called"} => call[i].connection = "none"
    /\ Cardinality({i \in Calls : call[i].connection = "open"})
          = Cardinality({i \in Calls : call[i].pc = "awaiting"})

C24_Witness ==
    \E i, j \in Calls :
        /\ call[i].pc = "awaiting" /\ call[i].connection = "open"
        /\ call[j].pc = "done" /\ call[j].connection = "closed"
        /\ HasBinary(call[j].result)
        /\ call[i].ref = "singleton" /\ call[j].ref = "singleton"

\* C25: two resolutions with identical inputs under the same configuration
\* yield the same base_url, api_key and timeout, whatever calls were forwarded
\* between them; each is the target the inputs and the configuration determine.
C25_ResolutionIdempotent ==
    \A i, j \in Calls :
        (/\ call[i].ref # None
         /\ call[j].ref # None
         /\ call[i].target = call[j].target) =>
            /\ call[i].resolved = call[j].resolved
            /\ call[i].ref = call[j].ref
            /\ call[i].resolved = TargetOf(ClientAsResolved(call[i]))

C25_Witness ==
    \E i, j \in Calls :
        /\ i # j
        /\ call[i].target = call[j].target
        /\ call[i].target.env_prefix = "dev"
        /\ call[i].pc = "answered" /\ Sent(call[i])
        /\ call[j].pc = "resolved"
        /\ call[j].resolved.base_url = <<"https://dev.example:4000">>
        /\ call[i].resolved = call[j].resolved

\* C26: after any interleaving of multipart and JSON calls the stored headers of
\* every client, the shared singleton included, are those of its construction;
\* every request sent without file parts carries Content-Type application/json
\* and every request carries the Authorization header of its client.
C26_StoredHeadersUnchanged ==
    /\ xroad_client.headers = XRoadClient(settings, NoneUrl, None, 0).headers
    /\ \A i \in Calls :
          /\ call[i].ref = "own" => call[i].own.headers = ClientAsResolved(call[i]).headers
          /\ Sent(call[i]) =>
                /\ call[i].request.headers["Authorization"]
                      = <<AuthScheme, ClientAsResolved(call[i]).api_key>>
                /\ ~Truthy(call[i].files) =>
                      call[i].request.headers["Content-Type"] = <<JsonType>>

C26_Witness ==
    \E i, j \in Calls :
        /\ call[i].ref = "singleton" /\ call[j].ref = "singleton"
        /\ call[i].pc = "answered" /\ call[i].request.body = "multipart"
        /\ call[j].pc = "awaiting" /\ call[j].method = "GET"
        /\ call[j].request.headers["Content-Type"] = <<JsonType>>
        /\ xroad_client.headers["Content-Type"] = <<JsonType>>

\* C27: the client call of a handler that passes file parts with POST, PUT or
\* PATCH (and no params, and data that can be encoded) is accepted, and once it
\* has been sent it has made one multipart request that carries those parts.
C27_UploadsSentAsMultipart ==
    \A i \in Calls :
        (/\ call[i].method \in {"POST", "PUT", "PATCH"}
         /\ Truthy(call[i].files)
         /\ call[i].params = None
         /\ call[i].data # "unserializable") =>
            /\ ~(call[i].exc = "TypeError" /\ call[i].raised_in = "XRoadClient")
            /\ call[i].pc \in {"awaiting", "done", "answered"} =>
                  /\ call[i].attempts = 1
                  /\ call[i].request.body = "multipart"
                  /\ call[i].request.file_parts = call[i].files

\* C28: in the upload handlers with a warnings branch, a result with status_code
\* 400 is answered with HTTP 400 whatever its data is (JSON object, array, null,
\* bytes): the detail is the data when it holds a "warnings" entry and the
\* generic message otherwise.
C28_WarningBranchAnswers400 ==
    \A i \in Calls :
        (/\ call[i].pc = "answered"
         /\ call[i].handler = "warnings"
         /\ GetStatusCode(call[i].result, 0) = 400) =>
            /\ call[i].response.kind = "HTTPException"
            /\ call[i].response.status_code = 400
            /\ call[i].response.body =
                  IF call[i].result.data = "obj_with_warnings"
                  THEN [payload |-> call[i].result.data]
                  ELSE [text |-> FallbackDetail]

C30_DiagnosticsProbes ==
    \A i \in Calls :
        /\ call[i].handler = "diagnostics" =>
              /\ Len(call[i].probed) <= Len(DiagnosticsProbes)
              /\ \A k \in DOMAIN call[i].probed :
                    call[i].probed[k].endpoint = DiagnosticsProbes[k].endpoint
        /\ (call[i].handler = "diagnostics" /\ call[i].pc = "answered"
                /\ call[i].exc = None) =>
              /\ Len(call[i].probed) = Len(DiagnosticsProbes)
              /\ call[i].outbound = Len(DiagnosticsProbes)
              /\ call[i].response.kind = "return"
              /\ call[i].response.status_code = 200
              /\ DOMAIN call[i].response.body.diagnostics
                    = { DiagnosticsProbes[k].key :
                          k \in {n \in DOMAIN call[i].probed : ~call[i].probed[n].failed} }

C30_Witness ==
    \E i \in Calls :
        /\ call[i].handler = "diagnostics"
        /\ call[i].pc = "answered"
        /\ Len(call[i].probed) = 6
        /\ \A k \in DOMAIN call[i].probed : call[i].probed[k].failed
        /\ call[i].response.kind = "return"
        /\ call[i].response.body.diagnostics = NoDiagnostics

====
